---- MODULE Spec2Model ----
(***************************************************************************)
(* Model of api/index.py: a FastAPI service that loads a latency dataset   *)
(* once at cold start and answers POST / with per-region metrics.          *)
(*                                                                         *)
(* Numbers.  latency_ms, uptime_pct and threshold_ms are decimal numbers;  *)
(* they are held here as integers counting thousandths (100004 is          *)
(* 100.004).  avg_latency and p95_latency are held in hundredths (the      *)
(* result of round(x, 2)), avg_uptime in thousandths (round(x, 3)).        *)
(* round() is round-half-to-even, which is what Python and numpy do on a   *)
(* value that sits exactly on a tie.                                       *)
(***************************************************************************)
EXTENDS Integers, Sequences, FiniteSets, TLC

VARIABLES
    file,        \* what is on disk at <app-root>/q-vercel-latency.json
    phase,       \* "init" before module import, then "serving" or "fatal"
    DF_FULL,     \* the module-level DataFrame
    dfAtLoad,    \* history: DF_FULL as it was when the import finished
    requests,    \* per connection: the request in flight and its response
    calcCalls,   \* history: calls of calculate_region_metrics per connection
    df_region,   \* argument of a direct call of calculate_region_metrics
    threshold,   \* argument of a direct call of calculate_region_metrics
    metrics      \* what that direct call returned

vars == <<file, phase, DF_FULL, dfAtLoad, requests, calcCalls,
          df_region, threshold, metrics>>

(***************************************************************************)
(* Bounds of the model.                                                    *)
(***************************************************************************)
MaxRows == 2        \* records in the dataset file
MaxRegions == 2     \* length of the regions list of a request
MaxSubset == 21     \* rows handed to a direct call of the calculator

Connections == {"c1", "c2"}

(***************************************************************************)
(* Arithmetic helpers.                                                     *)
(***************************************************************************)
Abs(x) == IF x < 0 THEN 0 - x ELSE x

\* pandas gives NaN for the mean or a quantile of no values
NaN == 0 - 1

RECURSIVE SumSeq(_)
SumSeq(s) == IF s = <<>> THEN 0 ELSE Head(s) + SumSeq(Tail(s))

RoundTrunc(num, den) == num \div den

\* round(num / den) to an integer, ties to the even neighbour
RoundHalfEven(num, den) ==
    LET q == num \div den
        r == num % den
    IN  IF 2 * r < den THEN q
        ELSE IF 2 * r > den THEN q + 1
        ELSE IF q % 2 = 0 THEN q ELSE q + 1

\* Series.mean() followed by round(., digits): xs in thousandths, the result
\* in units of unitDiv thousandths (10 for two decimals, 1 for three)
MeanRounded(xs, unitDiv) ==
    IF xs = <<>> THEN NaN ELSE RoundHalfEven(SumSeq(xs), unitDiv * Len(xs))

\* ceil(a / b) for a >= 0, b > 0
CeilDiv(a, b) == (a + b - 1) \div b

RECURSIVE Insert(_, _)
Insert(x, s) ==
    IF s = <<>> THEN <<x>>
    ELSE IF x <= Head(s) THEN <<x>> \o s
    ELSE <<Head(s)>> \o Insert(x, Tail(s))

RECURSIVE SortedValues(_)
SortedValues(s) == IF s = <<>> THEN <<>> ELSE Insert(Head(s), SortedValues(Tail(s)))

QuantileLower(xs) ==
    IF xs = <<>> THEN NaN
    ELSE SortedValues(xs)[((95 * (Len(xs) - 1)) \div 100) + 1]

\* Series.quantile(0.95, interpolation='higher'): the sorted values are
\* indexed from 0, the virtual index is (n - 1) * 0.95 and 'higher' takes
\* the element at its ceiling
QuantileHigher(xs) ==
    IF xs = <<>> THEN NaN
    ELSE SortedValues(xs)[CeilDiv(95 * (Len(xs) - 1), 100) + 1]

Column(df, name) == [i \in 1..Len(df) |-> df[i][name]]

CountGT(xs, t) ==
    Cardinality({i \in 1..Len(xs) : xs[i] > t})

RECURSIVE CountGE(_, _)
CountGE(xs, t) ==
    IF xs = <<>> THEN 0
    ELSE (IF Head(xs) >= t THEN 1 ELSE 0) + CountGE(Tail(xs), t)

(***************************************************************************)
(* calculate_region_metrics                                                *)
(***************************************************************************)
ZeroRecord ==
    [avg_latency |-> 0, p95_latency |-> 0, avg_uptime |-> 0, breaches |-> 0]

Statistics(rows, thr) ==
    [avg_latency |-> MeanRounded(Column(rows, "latency_ms"), 10),
     p95_latency |-> RoundHalfEven(QuantileHigher(Column(rows, "latency_ms")), 10),
     avg_uptime  |-> MeanRounded(Column(rows, "uptime_pct"), 1),
     breaches    |-> CountGE(Column(rows, "latency_ms"), thr)]

calculate_region_metrics_unguarded(rows, thr) ==
    IF rows = <<>>
    THEN [avg_latency |-> NaN, p95_latency |-> NaN, avg_uptime |-> NaN,
          breaches |-> 0]
    ELSE Statistics(rows, thr)

calculate_region_metrics(rows, thr) ==
    IF rows = <<>> THEN ZeroRecord ELSE Statistics(rows, thr)


(***************************************************************************)
(* The dataset file and the DataFrame built from it                        *)
(***************************************************************************)
DataRegions == {"us-east", "eu-west"}

FileObservations ==
    {[region |-> "us-east", latency_ms |-> 100004, uptime_pct |-> 99500],
     [region |-> "us-east", latency_ms |-> 180000, uptime_pct |-> 98001],
     [region |-> "eu-west", latency_ms |-> 180000, uptime_pct |-> 98001]}

SeqsUpTo(S, n) == UNION {[1..k -> S] : k \in 0..n}

Files ==
    {[kind |-> "missing", records |-> <<>>], [kind |-> "corrupt", records |-> <<>>]}
    \cup {[kind |-> "json", records |-> rs] : rs \in SeqsUpTo(FileObservations, MaxRows)}

\* pd.DataFrame(): no rows and no columns
EmptyFrame == [columns |-> {}, rows |-> <<>>]

\* pd.DataFrame(list of dicts): the columns are the keys that occur
DataFrame(records) ==
    [columns |-> IF records = <<>> THEN {}
                 ELSE {"region", "latency_ms", "uptime_pct"},
     rows |-> records]

(***************************************************************************)
(* Requests                                                                *)
(***************************************************************************)
RequestRegions == {"us-east", "US-EAST", "eu-west"}

Absent == [type |-> "absent", items |-> <<>>, num |-> 0]
JsonNumber(n) == [type |-> "number", items |-> <<>>, num |-> n]
JsonString == [type |-> "string", items |-> <<>>, num |-> 0]
JsonStrings(xs) == [type |-> "array", items |-> xs, num |-> 0]

\* every regions list without threshold_ms and with the default spelled out,
\* the short lists with another threshold as well
WellTypedBodies ==
    {[syntax |-> "json", regions |-> JsonStrings(rs), threshold_ms |-> t] :
        rs \in SeqsUpTo(RequestRegions, MaxRegions),
        t \in {Absent, JsonNumber(180000)}}
    \cup
    {[syntax |-> "json", regions |-> JsonStrings(rs),
      threshold_ms |-> JsonNumber(100004)] :
        rs \in SeqsUpTo(RequestRegions, 1)}

IllTypedBodies ==
    {[syntax |-> "malformed", regions |-> Absent, threshold_ms |-> Absent],
     [syntax |-> "json", regions |-> Absent, threshold_ms |-> JsonNumber(180000)],
     [syntax |-> "json", regions |-> JsonNumber(5), threshold_ms |-> Absent],
     [syntax |-> "json", regions |-> JsonStrings(<<"us-east">>),
      threshold_ms |-> JsonString]}

Bodies == WellTypedBodies \cup IllTypedBodies

NoBody == [syntax |-> "none", regions |-> Absent, threshold_ms |-> Absent]

\* class LatencyRequest(BaseModel): regions is required, threshold_ms is not
ValidatesLenient(body) ==
    /\ body.syntax = "json"
    /\ body.regions.type \in {"array", "absent"}
    /\ body.threshold_ms.type \in {"absent", "number"}

Validates(body) ==
    /\ body.syntax = "json"
    /\ body.regions.type = "array"
    /\ body.threshold_ms.type \in {"absent", "number"}

DefaultThresholdOther == 180000 + 20000

DefaultThreshold == 180000

LatencyRequest(body) ==
    [regions |-> body.regions.items,
     threshold_ms |-> IF body.threshold_ms.type = "absent"
                      THEN DefaultThreshold ELSE body.threshold_ms.num]

(***************************************************************************)
(* get_latency_metrics and root                                            *)
(***************************************************************************)
Range(f) == {f[i] : i \in DOMAIN f}

NoResults == [r \in {} |-> ZeroRecord]

Response(status, message, results) ==
    [status |-> status, message |-> message, regions |-> results]

NoResponse == Response(0, "", NoResults)

\* DF_FULL[DF_FULL['region'].isin(regions)]
IsinFilter(df, regions) ==
    [columns |-> df.columns,
     rows |-> SelectSeq(df.rows, LAMBDA o : o.region \in Range(regions))]

\* df_filtered[df_filtered['region'] == region]
RegionRows(df, region) == SelectSeq(df.rows, LAMBDA o : o.region = region)

\* the for loop: results[region] = calculate_region_metrics(df_region, threshold)
RECURSIVE RegionLoop(_, _, _, _)
RegionLoop(df_filtered, regions, thr, results) ==
    IF regions = <<>> THEN results
    ELSE LET region == Head(regions)
             m == calculate_region_metrics(RegionRows(df_filtered, region), thr)
         IN  RegionLoop(df_filtered, Tail(regions), thr,
                        [x \in DOMAIN results \cup {region} |->
                            IF x = region THEN m ELSE results[x]])

\* DF_FULL['region'] raises KeyError on a frame without that column; the
\* framework turns the exception into a 500 response
get_latency_metrics(df, request_data) ==
    IF "region" \notin df.columns
    THEN Response(500, "Internal Server Error", NoResults)
    ELSE Response(200, "",
                  RegionLoop(IsinFilter(df, request_data.regions),
                             request_data.regions,
                             request_data.threshold_ms, NoResults))

\* number of calls of calculate_region_metrics one run of the handler makes
CalculatorCalls(df, request_data) ==
    IF "region" \notin df.columns THEN 0 ELSE Len(request_data.regions)

root == Response(200, "POST request required with JSON body to retrieve metrics.",
                 NoResults)

\* the handler has no assignment to the module-level DataFrame
DF_FULL_keeps_filtered(df, request_data) == IsinFilter(df, request_data.regions)

DF_FULL_after_request(df, request_data) == df

(***************************************************************************)
(* Cold start: the module body, lines 46-53                                *)
(***************************************************************************)
Idle == [state |-> "idle", method |-> "", body |-> NoBody, response |-> NoResponse]

NoCall == [returned |-> FALSE, value |-> ZeroRecord]

Init ==
    /\ file \in Files
    /\ phase = "init"
    /\ DF_FULL = EmptyFrame
    /\ dfAtLoad = EmptyFrame
    /\ requests = [c \in Connections |-> Idle]
    /\ calcCalls = [c \in Connections |-> 0]
    /\ df_region = <<>>
    /\ threshold = 0
    /\ metrics = NoCall

LoadDataset ==
    /\ phase = "init"
    /\ file.kind = "json"
    /\ DF_FULL' = DataFrame(file.records)
    /\ dfAtLoad' = DF_FULL'
    /\ phase' = "serving"
    /\ UNCHANGED <<file, requests, calcCalls, df_region, threshold, metrics>>

LoadFileNotFound ==
    /\ phase = "init"
    /\ file.kind = "missing"
    /\ DF_FULL' = EmptyFrame
    /\ dfAtLoad' = DF_FULL'
    /\ phase' = "serving"
    /\ UNCHANGED <<file, requests, calcCalls, df_region, threshold, metrics>>

\* json.load raises JSONDecodeError, which the except clause does not catch
LoadFails ==
    /\ phase = "init"
    /\ file.kind = "corrupt"
    /\ phase' = "fatal"
    /\ UNCHANGED <<file, DF_FULL, dfAtLoad, requests, calcCalls,
                   df_region, threshold, metrics>>

(***************************************************************************)
(* Requests: arrival, validation, handler, delivery                        *)
(***************************************************************************)
PostArrives(c, body) ==
    /\ phase = "serving"
    /\ requests[c].state = "idle"
    /\ requests' = [requests EXCEPT ![c] =
                       [state |-> "received", method |-> "POST",
                        body |-> body, response |-> NoResponse]]
    /\ UNCHANGED <<file, phase, DF_FULL, dfAtLoad, calcCalls,
                   df_region, threshold, metrics>>

GetArrives(c) ==
    /\ phase = "serving"
    /\ requests[c].state = "idle"
    /\ requests' = [requests EXCEPT ![c] =
                       [state |-> "received", method |-> "GET",
                        body |-> NoBody, response |-> NoResponse]]
    /\ UNCHANGED <<file, phase, DF_FULL, dfAtLoad, calcCalls,
                   df_region, threshold, metrics>>

\* the body does not fit LatencyRequest: 422, the handler is not called
RejectPost(c) ==
    /\ requests[c].state = "received"
    /\ requests[c].method = "POST"
    /\ ~Validates(requests[c].body)
    /\ requests' = [requests EXCEPT ![c].state = "done",
                                    ![c].response =
                                        Response(422, "Unprocessable Entity", NoResults)]
    /\ UNCHANGED <<file, phase, DF_FULL, dfAtLoad, calcCalls,
                   df_region, threshold, metrics>>

\* the handler is a coroutine without an await: it runs in one piece
HandlePost(c) ==
    /\ requests[c].state = "received"
    /\ requests[c].method = "POST"
    /\ Validates(requests[c].body)
    /\ LET request_data == LatencyRequest(requests[c].body)
       IN  /\ requests' = [requests EXCEPT ![c].state = "done",
                                           ![c].response =
                                               get_latency_metrics(DF_FULL, request_data)]
           /\ calcCalls' = [calcCalls EXCEPT ![c] = CalculatorCalls(DF_FULL, request_data)]
           /\ DF_FULL' = DF_FULL_after_request(DF_FULL, request_data)
    /\ UNCHANGED <<file, phase, dfAtLoad, df_region, threshold, metrics>>

HandleGet(c) ==
    /\ requests[c].state = "received"
    /\ requests[c].method = "GET"
    /\ requests' = [requests EXCEPT ![c].state = "done", ![c].response = root]
    /\ UNCHANGED <<file, phase, DF_FULL, dfAtLoad, calcCalls,
                   df_region, threshold, metrics>>

\* the response is sent and the connection takes its next request
Deliver(c) ==
    /\ requests[c].state = "done"
    /\ requests' = [requests EXCEPT ![c] = Idle]
    /\ calcCalls' = [calcCalls EXCEPT ![c] = 0]
    /\ UNCHANGED <<file, phase, DF_FULL, dfAtLoad, df_region, threshold, metrics>>

Next ==
    \/ LoadDataset
    \/ LoadFileNotFound
    \/ LoadFails
    \/ \E c \in Connections, body \in Bodies : PostArrives(c, body)
    \/ \E c \in Connections : GetArrives(c)
    \/ \E c \in Connections : RejectPost(c)
    \/ \E c \in Connections : HandlePost(c)
    \/ \E c \in Connections : HandleGet(c)
    \/ \E c \in Connections : Deliver(c)

Spec == Init /\ [][Next]_vars

(***************************************************************************)
(* Direct calls of calculate_region_metrics on one region's rows           *)
(***************************************************************************)
Repeat(o, k) == [i \in 1..k |-> o]

SubsetObservations ==
    <<[region |-> "us-east", latency_ms |-> 100004, uptime_pct |-> 99500],
      [region |-> "us-east", latency_ms |-> 180000, uptime_pct |-> 98001],
      [region |-> "us-east", latency_ms |-> 500007, uptime_pct |-> 97250]>>

BlockOrders ==
    {<<1, 2, 3>>, <<1, 3, 2>>, <<2, 1, 3>>, <<2, 3, 1>>, <<3, 1, 2>>, <<3, 2, 1>>}

\* rows of one region: runs of equal observations, the runs in any order
Subsets ==
    {Repeat(SubsetObservations[ord[1]], k[1])
        \o Repeat(SubsetObservations[ord[2]], k[2])
        \o Repeat(SubsetObservations[ord[3]], k[3]) :
     ord \in BlockOrders,
     k \in {kk \in [1..3 -> 0..MaxSubset] : kk[1] + kk[2] + kk[3] <= MaxSubset}}

Thresholds == {100004, 150000, 180000, 180001}

InitCalc ==
    /\ file = [kind |-> "missing", records |-> <<>>]
    /\ phase = "init"
    /\ DF_FULL = EmptyFrame
    /\ dfAtLoad = EmptyFrame
    /\ requests = [c \in Connections |-> Idle]
    /\ calcCalls = [c \in Connections |-> 0]
    /\ df_region \in Subsets
    /\ threshold \in Thresholds
    /\ metrics = NoCall

Calculate ==
    /\ ~metrics.returned
    /\ metrics' = [returned |-> TRUE,
                   value |-> calculate_region_metrics(df_region, threshold)]
    /\ UNCHANGED <<file, phase, DF_FULL, dfAtLoad, requests, calcCalls,
                   df_region, threshold>>

NextCalc == Calculate

SpecCalc == InitCalc /\ [][NextCalc]_vars

(***************************************************************************)
(* Vocabulary of the properties                                            *)
(***************************************************************************)
\* r is a nearest integer to num / den (either neighbour on a tie)
IsNearest(r, num, den) == 2 * Abs(r * den - num) <= den

CountLE(xs, v) == Cardinality({i \in 1..Len(xs) : xs[i] <= v})

\* the smallest value of xs that at least 95% of the elements do not exceed
NearestRank95(xs) ==
    CHOOSE v \in Range(xs) :
        /\ 100 * CountLE(xs, v) >= 95 * Len(xs)
        /\ \A w \in Range(xs) : 100 * CountLE(xs, w) >= 95 * Len(xs) => v <= w

\* the smallest value of xs that more than 95% of the elements do not exceed
Above95(xs) ==
    CHOOSE v \in Range(xs) :
        /\ 100 * CountLE(xs, v) > 95 * Len(xs)
        /\ \A w \in Range(xs) : 100 * CountLE(xs, w) > 95 * Len(xs) => v <= w

Latencies == Column(df_region, "latency_ms")
Uptimes == Column(df_region, "uptime_pct")

CalledOnRows == metrics.returned /\ df_region # <<>>

\* the body is malformed, lacks regions, or has a field of the wrong type
FailsValidation(body) ==
    \/ body.syntax = "malformed"
    \/ body.regions.type = "absent"
    \/ body.regions.type \in {"number", "string"}
    \/ body.threshold_ms.type \in {"string", "array"}

AnsweredPost(c) == requests[c].state = "done" /\ requests[c].method = "POST"

AnsweredValidPost(c) == AnsweredPost(c) /\ ~FailsValidation(requests[c].body)

Requested(c) == Range(requests[c].body.regions.items)

MatchingRows(region) == SelectSeq(DF_FULL.rows, LAMBDA o : o.region = region)

IsZeroRecordFor(c, region) ==
    /\ requests[c].response.status = 200
    /\ region \in DOMAIN requests[c].response.regions
    /\ requests[c].response.regions[region] = ZeroRecord

(***************************************************************************)
(* C1: when the data file is missing at startup the service holds an       *)
(* empty Dataset and every valid POST / answers the zero-record for each   *)
(* requested region, without a fault.                                      *)
(***************************************************************************)
C1_MissingFileGivesZeroRecords ==
    (phase = "serving" /\ file.kind = "missing") =>
        /\ DF_FULL.rows = <<>>
        /\ \A c \in Connections :
              AnsweredValidPost(c) =>
                  /\ requests[c].response.status = 200
                  /\ \A region \in Requested(c) : IsZeroRecordFor(c, region)

(***************************************************************************)
(* C2: on rows, p95_latency is the smallest latency that at least 95% of   *)
(* the rows do not exceed (nearest rank), to two decimals.                 *)
(***************************************************************************)
C2_P95IsNearestRank ==
    CalledOnRows =>
        IsNearest(metrics.value.p95_latency, NearestRank95(Latencies), 10)

(***************************************************************************)
(* C2, amended: on rows, p95_latency is the smallest latency that more     *)
(* than 95% of the rows do not exceed, to two decimals; that is the        *)
(* nearest-rank value unless the number of rows is a multiple of 20.       *)
(***************************************************************************)
C2_P95IsHigherRank ==
    CalledOnRows =>
        /\ IsNearest(metrics.value.p95_latency, Above95(Latencies), 10)
        /\ Len(df_region) % 20 # 0 => Above95(Latencies) = NearestRank95(Latencies)

C2_Witness ==
    /\ CalledOnRows
    /\ Len(df_region) = 20
    /\ CountLE(Latencies, 180000) = 19
    /\ metrics.value.p95_latency = 50001

(***************************************************************************)
(* C3: on rows, breaches is the number of rows whose latency is at least   *)
(* the threshold (a latency equal to the threshold counts), and it lies    *)
(* between 0 and the number of rows.                                       *)
(***************************************************************************)
C3_BreachesCountInclusive ==
    CalledOnRows =>
        /\ metrics.value.breaches =
              Cardinality({i \in 1..Len(df_region) : Latencies[i] >= threshold})
        /\ 0 <= metrics.value.breaches
        /\ metrics.value.breaches <= Len(df_region)

C3_Witness ==
    /\ CalledOnRows
    /\ \E i \in 1..Len(df_region) : Latencies[i] = threshold
    /\ \E i \in 1..Len(df_region) : Latencies[i] < threshold
    /\ \E i \in 1..Len(df_region) : Latencies[i] > threshold
    /\ metrics.value.breaches = 2

(***************************************************************************)
(* C4: on no rows, whatever the threshold, the result is exactly the       *)
(* zero-record; no field is the NaN a statistic over no values would be.   *)
(***************************************************************************)
C4_EmptySubsetGivesZeroRecord ==
    (metrics.returned /\ df_region = <<>>) =>
        /\ metrics.value = ZeroRecord
        /\ metrics.value.avg_latency # NaN
        /\ metrics.value.p95_latency # NaN
        /\ metrics.value.avg_uptime # NaN

C4_Witness == metrics.returned /\ df_region = <<>> /\ threshold = 180000

(***************************************************************************)
(* C5: whatever dataset is held after load, a requested region without a   *)
(* row of exactly that name is a key of the answer of a valid POST /,      *)
(* mapped to the zero-record, and the request does not fail.               *)
(***************************************************************************)
C5_UnmatchedRegionGivesZeroRecord ==
    \A c \in Connections :
        AnsweredValidPost(c) =>
            \A region \in Requested(c) :
                MatchingRows(region) = <<>> => IsZeroRecordFor(c, region)

(***************************************************************************)
(* C6: a POST / whose body fails validation is answered with a client      *)
(* error and calculate_region_metrics is not called for it.                *)
(***************************************************************************)
C6_InvalidBodyNeverReachesCalculator ==
    \A c \in Connections :
        (requests[c].method = "POST" /\ FailsValidation(requests[c].body)) =>
            /\ calcCalls[c] = 0
            /\ requests[c].state = "done" => requests[c].response.status = 422

C6_Witness ==
    /\ AnsweredPost("c1")
    /\ FailsValidation(requests["c1"].body)
    /\ requests["c1"].body.regions.type = "absent"
    /\ requests["c1"].response.status = 422
    /\ AnsweredValidPost("c2")
    /\ calcCalls["c2"] = 2

(***************************************************************************)
(* C7: a POST / without threshold_ms is answered exactly as the same       *)
(* request with threshold_ms 180.                                          *)
(***************************************************************************)
C7_OmittedThresholdIs180 ==
    \A c, d \in Connections :
        ( /\ AnsweredValidPost(c)
          /\ AnsweredValidPost(d)
          /\ requests[c].body.regions = requests[d].body.regions
          /\ requests[c].body.threshold_ms = Absent
          /\ requests[d].body.threshold_ms = JsonNumber(180000) )
        => requests[c].response = requests[d].response

C7_Witness ==
    /\ AnsweredValidPost("c1")
    /\ AnsweredValidPost("c2")
    /\ requests["c1"].body.regions = requests["c2"].body.regions
    /\ requests["c1"].body.threshold_ms = Absent
    /\ requests["c2"].body.threshold_ms = JsonNumber(180000)
    /\ requests["c1"].response.status = 200
    /\ "us-east" \in DOMAIN requests["c1"].response.regions
    /\ requests["c1"].response.regions["us-east"].breaches = 1
    /\ requests["c1"].response.regions["us-east"].p95_latency = 18000

(***************************************************************************)
(* C8: once loaded the Dataset is never written: it stays what it was at   *)
(* the end of loading, and every answer is the one the request would get   *)
(* if it were handled alone on that Dataset.                               *)
(***************************************************************************)
AnswerAlone(df, request) ==
    IF request.method = "GET" THEN root
    ELSE IF FailsValidation(request.body)
         THEN Response(422, "Unprocessable Entity", NoResults)
         ELSE get_latency_metrics(df, LatencyRequest(request.body))

C8_DatasetReadOnlyAfterLoad ==
    phase = "serving" =>
        /\ DF_FULL = dfAtLoad
        /\ \A c \in Connections :
              requests[c].state = "done" =>
                  requests[c].response = AnswerAlone(dfAtLoad, requests[c])

C8_Witness ==
    /\ AnsweredValidPost("c1")
    /\ AnsweredValidPost("c2")
    /\ requests["c1"].body.regions.items = <<"us-east">>
    /\ requests["c2"].body.regions.items = <<"eu-west", "us-east">>
    /\ requests["c1"].response.status = 200
    /\ requests["c2"].response.status = 200
    /\ Len(DF_FULL.rows) = 2
    /\ MatchingRows("us-east") # <<>>
    /\ MatchingRows("eu-west") # <<>>

(***************************************************************************)
(* C9: on rows, avg_latency is the mean of the latencies to two decimals   *)
(* and avg_uptime the mean of the uptimes to three decimals.               *)
(***************************************************************************)
C9_MeansRounded ==
    CalledOnRows =>
        /\ IsNearest(metrics.value.avg_latency, SumSeq(Latencies),
                     10 * Len(df_region))
        /\ IsNearest(metrics.value.avg_uptime, SumSeq(Uptimes), Len(df_region))

C9_Witness ==
    /\ CalledOnRows
    /\ Len(df_region) = 3
    /\ 2 * (SumSeq(Latencies) % 30) > 30
    /\ 2 * (SumSeq(Uptimes) % 3) > 3
    /\ metrics.value.avg_latency * 30 > SumSeq(Latencies)
    /\ metrics.value.avg_uptime * 3 > SumSeq(Uptimes)

(***************************************************************************)
(* C10: for a loaded dataset and a valid POST /, the keys of the answer    *)
(* are the distinct requested regions, and each region's entry is          *)
(* calculate_region_metrics over all rows of exactly that region,          *)
(* whatever else is in the list and in whatever order.                     *)
(***************************************************************************)
KeysAndEntriesMatch(c) ==
    /\ requests[c].response.status = 200
    /\ DOMAIN requests[c].response.regions = Requested(c)
    /\ \A region \in Requested(c) :
          requests[c].response.regions[region] =
              calculate_region_metrics(MatchingRows(region),
                                       LatencyRequest(requests[c].body).threshold_ms)

C10_KeysAreRequestedRegions ==
    (phase = "serving" /\ file.kind = "json") =>
        \A c \in Connections : AnsweredValidPost(c) => KeysAndEntriesMatch(c)

\* the same on a dataset with at least one record
KeysMatchOnRecords ==
    (phase = "serving" /\ file.kind = "json" /\ file.records # <<>>) =>
        \A c \in Connections : AnsweredValidPost(c) => KeysAndEntriesMatch(c)

====
